---- MODULE Spec2Model ----
(***************************************************************************)
(* tensorrec/loss_graphs.py: the five loss graphs of tensorrec.            *)
(*                                                                         *)
(* Every loss_graph is a pure function of the tensors it is handed.  The   *)
(* state is one call: the keyword arguments the caller supplies (kwargs),  *)
(* the class whose loss_graph was invoked (graph) and the value returned   *)
(* (loss).  Tensor entries are integers and the float arithmetic of        *)
(* TensorFlow is modelled exactly: a mean is a rational num/den (0/0 is    *)
(* NaN), a square root is kept as the root of its rational radicand, and   *)
(* the Normal cdf is kept as a term over its parameters.                   *)
(***************************************************************************)
EXTENDS Integers, Sequences, FiniteSets, TLC

VARIABLES kwargs, graph, loss

vars == <<kwargs, graph, loss>>

(***************************************************************************)
(* Bounds of the model.                                                    *)
(***************************************************************************)
\* n_users and n_items of the [n_users, n_items] tensors
NUsers == 2
NItems == 2
\* tensor entries range over -MaxVal..MaxVal
MaxVal == 1
\* n_sampled_items ranges over 0..MaxK
MaxK == 2
\* stored entries of tf_interactions in the WMRB specifications and in Spec
MaxStored == 2
\* n_samples of the serial tensors in SpecSerial and SpecSeparation (at most
\* NUsers * NItems, the samples being cells of the grid)
MaxSamples == 3

Users == 0 .. (NUsers - 1)
Items == 0 .. (NItems - 1)
Cells == Users \X Items
Vals == (-MaxVal) .. MaxVal

(***************************************************************************)
(* Numbers.  A rational is [num, den], den > 0, in lowest terms; NaN is    *)
(* 0/0, which is how the code produces it (the mean of no elements).       *)
(***************************************************************************)
Abs(x) == IF x < 0 THEN -x ELSE x

RECURSIVE GCD(_, _)
GCD(a, b) == IF b = 0 THEN a ELSE GCD(b, a % b)

NaN == [num |-> 0, den |-> 0]

IsNaN(q) == q.den = 0

\* true division of two numbers, num / den
Rat(n, d) ==
    IF d = 0 THEN NaN
    ELSE LET g == GCD(Abs(n), Abs(d))
             s == IF d < 0 THEN -1 ELSE 1
         IN  [num |-> s * (n \div g), den |-> s * (d \div g)]

RatAdd(a, b) ==
    IF IsNaN(a) \/ IsNaN(b) THEN NaN
    ELSE Rat(a.num * b.den + b.num * a.den, a.den * b.den)

RatSub(a, b) ==
    IF IsNaN(a) \/ IsNaN(b) THEN NaN
    ELSE Rat(a.num * b.den - b.num * a.den, a.den * b.den)

\* tf.sqrt: NaN of a NaN or a negative number, else the principal root,
\* kept as the root of its radicand
Sqrt(q) ==
    IF IsNaN(q) \/ q.num < 0 THEN [sqrt_of |-> NaN] ELSE [sqrt_of |-> q]

(***************************************************************************)
(* Tensor operations used by the loss graphs.  A serial tensor of shape    *)
(* [n_samples, 1] is a sequence; a dense [n_users, n_items] tensor is a    *)
(* function on Cells; a SparseTensor is [indices, values], indices a       *)
(* sequence of <<user, item>>; a [n_users, k] tensor is [shape, rows].     *)
(***************************************************************************)
RECURSIVE SeqSum(_)
SeqSum(s) == IF s = <<>> THEN 0 ELSE Head(s) + SeqSum(Tail(s))

RECURSIVE SetSum(_, _)
SetSum(f, S) ==
    IF S = {} THEN 0
    ELSE LET c == CHOOSE x \in S : TRUE IN f[c] + SetSum(f, S \ {c})

\* a - b on serial tensors of the same shape
Subtract(a, b) == [j \in 1 .. Len(a) |-> a[j] - b[j]]

\* tf.square on a serial tensor
Square(a) == [j \in 1 .. Len(a) |-> a[j] * a[j]]

\* tf.reduce_mean on a serial tensor
ReduceMean(a) == Rat(SeqSum(a), Len(a))

\* tf.square on a dense tensor
SquareDense(m) == [c \in DOMAIN m |-> m[c] * m[c]]

\* tf.reduce_mean on a dense tensor: over every cell of the grid
ReduceMeanDense(m) == Rat(SetSum(m, DOMAIN m), Cardinality(DOMAIN m))

\* scalar * dense tensor
Scale(k, m) == [c \in DOMAIN m |-> k * m[c]]

\* tf.sparse_add(sparse, dense): the dense tensor with every stored value
\* of the sparse one added at its index
SparseAdd(sp, m) ==
    [c \in DOMAIN m |->
        m[c] + SeqSum([j \in 1 .. Len(sp.indices) |->
                          IF sp.indices[j] = c THEN sp.values[j] ELSE 0])]

(***************************************************************************)
(* RMSELossGraph.loss_graph                                                *)
(***************************************************************************)
\* faulty variant: tf.square left out
RMSELossGraph_loss_graph_MissingSquare(kw) ==
    Sqrt(ReduceMean(Subtract(kw.tf_interactions_serial, kw.tf_prediction_serial)))

\* tf.sqrt(tf.reduce_mean(tf.square(tf_interactions_serial - tf_prediction_serial)))
RMSELossGraph_loss_graph(kw) ==
    Sqrt(ReduceMean(Square(Subtract(kw.tf_interactions_serial,
                                    kw.tf_prediction_serial))))

(***************************************************************************)
(* RMSEDenseLossGraph.loss_graph                                           *)
(***************************************************************************)
\* faulty variant: the prediction is added, not subtracted
RMSEDenseLossGraph_loss_graph_AddsPrediction(kw) ==
    LET error == SparseAdd(kw.tf_interactions, kw.tf_prediction)
    IN  Sqrt(ReduceMeanDense(SquareDense(error)))

RMSEDenseLossGraph_loss_graph(kw) ==
    LET error == SparseAdd(kw.tf_interactions, Scale(-1, kw.tf_prediction))
    IN  Sqrt(ReduceMeanDense(SquareDense(error)))

(***************************************************************************)
(* SeparationLossGraph.loss_graph                                          *)
(***************************************************************************)
\* tf.greater / tf.less_equal of a serial tensor and a scalar
Greater(a, x) == [j \in 1 .. Len(a) |-> a[j] > x]

LessEqual(a, x) == [j \in 1 .. Len(a) |-> a[j] <= x]

\* tf.boolean_mask: the entries whose mask is true, in their order
RECURSIVE BooleanMask(_, _)
BooleanMask(t, mask) ==
    IF t = <<>> THEN <<>>
    ELSE IF Head(mask) THEN <<Head(t)>> \o BooleanMask(Tail(t), Tail(mask))
         ELSE BooleanMask(Tail(t), Tail(mask))

\* tf.nn.moments(x, axes=[0]): the mean and the (population) variance,
\* mean((x - mean)^2) = (n * sum(x^2) - sum(x)^2) / n^2; both NaN of no elements
Moments(a) ==
    LET n == Len(a)
        s == SeqSum(a)
        q == SeqSum(Square(a))
    IN  [mean |-> Rat(s, n), variance |-> Rat(n * q - s * s, n * n)]

\* tf.contrib.distributions.Normal(loc, scale).cdf(x), kept as a term
NormalCdf(loc, scale, x) == [cdf_at |-> x, loc |-> loc, scale |-> scale]

\* 1.0 - t, kept as a term
OneMinus(t) == [one_minus |-> t]

PositiveMask(interactions) == Greater(interactions, 0)

\* faulty variant: tf.less, which leaves the zero interactions out
NegativeMaskStrict(interactions) ==
    [j \in 1 .. Len(interactions) |-> interactions[j] < 0]

NegativeMask(interactions) == LessEqual(interactions, 0)

\* faulty variant: the scale of the negative group alone
OverlapDistributionNegVarOnly(neg, pos) ==
    [loc |-> RatSub(neg.mean, pos.mean), scale |-> Sqrt(neg.variance)]

\* the parameters of tf_overlap_distribution
OverlapDistribution(neg, pos) ==
    [loc |-> RatSub(neg.mean, pos.mean),
     scale |-> Sqrt(RatAdd(neg.variance, pos.variance))]

SeparationLossGraph_loss_graph(kw) ==
    LET tf_positive_mask == PositiveMask(kw.tf_interactions_serial)
        tf_negative_mask == NegativeMask(kw.tf_interactions_serial)
        tf_positive_predictions == BooleanMask(kw.tf_prediction_serial, tf_positive_mask)
        tf_negative_predictions == BooleanMask(kw.tf_prediction_serial, tf_negative_mask)
        pos == Moments(tf_positive_predictions)
        neg == Moments(tf_negative_predictions)
        tf_overlap_distribution == OverlapDistribution(neg, pos)
    IN  OneMinus(NormalCdf(tf_overlap_distribution.loc,
                           tf_overlap_distribution.scale, 0))

(***************************************************************************)
(* WMRBLossGraph.loss_graph                                                *)
(***************************************************************************)
\* tf.gather_nd(params, indices) of a dense tensor
GatherNd(params, indices) == [j \in 1 .. Len(indices) |-> params[indices[j]]]

\* tf.gather(params, indices) of a vector
Gather(params, indices) == [j \in 1 .. Len(indices) |-> params[indices[j]]]

\* tf.transpose of an [n, 2] index tensor: its two columns, [0] and [1]
Transpose(indices) ==
    [col \in 0 .. 1 |-> [j \in 1 .. Len(indices) |-> indices[j][col + 1]]]

\* tf.reduce_sum(t, axis=1) of a [n_users, k] tensor
ReduceSumAxis1(t) == [u \in DOMAIN t.rows |-> SeqSum(t.rows[u])]

\* faulty variant: tf.greater_equal, which keeps the zero interactions
PositiveInteractionIndicesNonNegative(tf_interactions) ==
    BooleanMask(tf_interactions.indices, [j \in 1 .. Len(tf_interactions.values) |->
                                             tf_interactions.values[j] >= 0])

PositiveInteractionIndices(tf_interactions) ==
    LET positive_interaction_mask == Greater(tf_interactions.values, 0)
    IN  BooleanMask(tf_interactions.indices, positive_interaction_mask)

\* faulty variant: the sums are gathered by the item column of the indices
MappedPredictionsSumPerUserByItem(tf_sample_predictions, positive_interaction_indices) ==
    Gather(ReduceSumAxis1(tf_sample_predictions),
           Transpose(positive_interaction_indices)[1])

MappedPredictionsSumPerUser(tf_sample_predictions, positive_interaction_indices) ==
    LET predictions_sum_per_user == ReduceSumAxis1(tf_sample_predictions)
    IN  Gather(predictions_sum_per_user, Transpose(positive_interaction_indices)[0])

\* faulty variant: the scaled prediction is added
SampledMarginRankAddsPrediction(n_sampled_items, p, s, irrelevant_item_indicator) ==
    n_sampled_items + (n_sampled_items * p) + s + irrelevant_item_indicator

\* one entry of sampled_margin_rank
SampledMarginRank(n_sampled_items, p, s, irrelevant_item_indicator) ==
    n_sampled_items - (n_sampled_items * p) + s + irrelevant_item_indicator

WMRBLossGraph_loss_graph(kw) ==
    LET positive_interaction_indices == PositiveInteractionIndices(kw.tf_interactions)
        positive_predictions == GatherNd(kw.tf_prediction, positive_interaction_indices)
        n_sampled_items == kw.tf_sample_predictions.shape[2]
        mapped_predictions_sum_per_user ==
            MappedPredictionsSumPerUser(kw.tf_sample_predictions,
                                        positive_interaction_indices)
        irrelevant_item_indicator == n_sampled_items
    IN  [j \in 1 .. Len(positive_predictions) |->
            SampledMarginRank(n_sampled_items, positive_predictions[j],
                              mapped_predictions_sum_per_user[j],
                              irrelevant_item_indicator)]

(***************************************************************************)
(* WMRBAlignmentLossGraph.loss_graph                                       *)
(***************************************************************************)
\* faulty variant: the super call is handed the predictions
WMRBAlignmentLossGraph_loss_graph_PassesPrediction(kw) ==
    WMRBLossGraph_loss_graph([tf_prediction |-> kw.tf_prediction,
                              tf_interactions |-> kw.tf_interactions,
                              tf_sample_predictions |-> kw.tf_sample_predictions])

\* faulty variant: the super call is handed the sampled predictions
WMRBAlignmentLossGraph_loss_graph_PassesSamplePredictions(kw) ==
    WMRBLossGraph_loss_graph([tf_prediction |-> kw.tf_alignment,
                              tf_interactions |-> kw.tf_interactions,
                              tf_sample_predictions |-> kw.tf_sample_predictions])

\* super().loss_graph(tf_prediction=tf_alignment, tf_interactions=...,
\* tf_sample_predictions=tf_sample_alignments)
WMRBAlignmentLossGraph_loss_graph(kw) ==
    WMRBLossGraph_loss_graph([tf_prediction |-> kw.tf_alignment,
                              tf_interactions |-> kw.tf_interactions,
                              tf_sample_predictions |-> kw.tf_sample_alignments])

(***************************************************************************)
(* The classes: their own attributes, their bases, attribute lookup and    *)
(* the parameters each loss_graph names (the rest go to **kwargs).         *)
(***************************************************************************)
Classes == {"RMSELossGraph", "RMSEDenseLossGraph", "SeparationLossGraph",
            "WMRBLossGraph", "WMRBAlignmentLossGraph"}

\* the base class of each class
Base(cls) ==
    IF cls = "WMRBAlignmentLossGraph" THEN "WMRBLossGraph" ELSE "AbstractLossGraph"

\* faulty variant: RMSEDenseLossGraph does not set is_dense
ClassDictDenseFlagMissing(cls) ==
    CASE cls = "AbstractLossGraph" -> [is_dense |-> FALSE, is_sample_based |-> FALSE]
      [] cls = "RMSEDenseLossGraph" -> << >>
      [] cls = "WMRBLossGraph" -> [is_dense |-> TRUE, is_sample_based |-> TRUE]
      [] OTHER -> << >>

\* the attributes a class body assigns itself
ClassDict(cls) ==
    CASE cls = "AbstractLossGraph" -> [is_dense |-> FALSE, is_sample_based |-> FALSE]
      [] cls = "RMSEDenseLossGraph" -> [is_dense |-> TRUE]
      [] cls = "WMRBLossGraph" -> [is_dense |-> TRUE, is_sample_based |-> TRUE]
      [] OTHER -> << >>

\* attribute lookup along the bases
RECURSIVE GetAttr(_, _)
GetAttr(cls, name) ==
    IF name \in DOMAIN ClassDict(cls) THEN ClassDict(cls)[name]
    ELSE GetAttr(Base(cls), name)

\* the parameters loss_graph names
Signature(cls) ==
    CASE cls \in {"RMSELossGraph", "SeparationLossGraph"} ->
            {"tf_prediction_serial", "tf_interactions_serial"}
      [] cls = "RMSEDenseLossGraph" -> {"tf_interactions", "tf_prediction"}
      [] cls = "WMRBLossGraph" ->
            {"tf_prediction", "tf_interactions", "tf_sample_predictions"}
      [] cls = "WMRBAlignmentLossGraph" ->
            {"tf_alignment", "tf_interactions", "tf_sample_alignments"}

\* cls().loss_graph(**kw)
LossGraph(cls, kw) ==
    CASE cls = "RMSELossGraph" -> RMSELossGraph_loss_graph(kw)
      [] cls = "RMSEDenseLossGraph" -> RMSEDenseLossGraph_loss_graph(kw)
      [] cls = "SeparationLossGraph" -> SeparationLossGraph_loss_graph(kw)
      [] cls = "WMRBLossGraph" -> WMRBLossGraph_loss_graph(kw)
      [] cls = "WMRBAlignmentLossGraph" -> WMRBAlignmentLossGraph_loss_graph(kw)

(***************************************************************************)
(* The tensors a caller can supply, within the bounds.                     *)
(***************************************************************************)
\* dense [n_users, n_items] tensors
DenseTensors == [Cells -> Vals]

\* sequences of at most n distinct elements of S
DistinctSeqs(S, n) ==
    UNION {{ix \in [1 .. m -> S] : \A i, j \in 1 .. m : i < j => ix[i] # ix[j]} :
           m \in 0 .. n}

\* SparseTensors of shape [n_users, n_items] with at most n stored entries
SparseTensors(n) ==
    UNION {{[indices |-> ix, values |-> v] : v \in [1 .. Len(ix) -> Vals]} :
           ix \in DistinctSeqs(Cells, n)}

\* dense [n_users, k] tensors, k <= maxk
SampleTensors(maxk) ==
    UNION {{[shape |-> <<NUsers, k>>, rows |-> r] : r \in [Users -> [1 .. k -> Vals]]} :
           k \in 0 .. maxk}

ZeroDense == [c \in Cells |-> 0]

NoSamples == [shape |-> <<NUsers, 0>>, rows |-> [u \in Users |-> << >>]]

\* -t for a [n_users, k] tensor
NegateSamples(t) ==
    [shape |-> t.shape,
     rows |-> [u \in DOMAIN t.rows |-> [j \in 1 .. Len(t.rows[u]) |-> -t.rows[u][j]]]]

\* The keyword arguments of one call: the serial tensors are the stored
\* interactions and the predictions at their indices.
Kwargs(interactions, prediction, alignment, sample_predictions, sample_alignments) ==
    [tf_prediction_serial |-> GatherNd(prediction, interactions.indices),
     tf_interactions_serial |-> interactions.values,
     tf_prediction |-> prediction,
     tf_interactions |-> interactions,
     tf_rankings |-> ZeroDense,
     tf_alignment |-> alignment,
     tf_sample_predictions |-> sample_predictions,
     tf_sample_alignments |-> sample_alignments]

(***************************************************************************)
(* One call of a loss graph.                                               *)
(***************************************************************************)
CallRMSE ==
    /\ graph = "none"
    /\ graph' = "RMSELossGraph"
    /\ loss' = RMSELossGraph_loss_graph(kwargs)
    /\ UNCHANGED kwargs

CallRMSEDense ==
    /\ graph = "none"
    /\ graph' = "RMSEDenseLossGraph"
    /\ loss' = RMSEDenseLossGraph_loss_graph(kwargs)
    /\ UNCHANGED kwargs

CallSeparation ==
    /\ graph = "none"
    /\ graph' = "SeparationLossGraph"
    /\ loss' = SeparationLossGraph_loss_graph(kwargs)
    /\ UNCHANGED kwargs

CallWMRB ==
    /\ graph = "none"
    /\ graph' = "WMRBLossGraph"
    /\ loss' = WMRBLossGraph_loss_graph(kwargs)
    /\ UNCHANGED kwargs

CallWMRBAlignment ==
    /\ graph = "none"
    /\ graph' = "WMRBAlignmentLossGraph"
    /\ loss' = WMRBAlignmentLossGraph_loss_graph(kwargs)
    /\ UNCHANGED kwargs

\* the j-th cell of the grid in row-major order, j = 1, 2, ...
CellAt(j) == <<(j - 1) \div NItems, (j - 1) % NItems>>

\* the dense tensor with `entries` at the first cells and `fill` elsewhere
DenseOf(entries, fill) ==
    [c \in Cells |->
        LET j == c[1] * NItems + c[2] + 1
        IN  IF j <= Len(entries) THEN entries[j] ELSE fill]

\* the SparseTensor that stores `values` at the first cells
SparseOf(values) ==
    [indices |-> [j \in 1 .. Len(values) |-> CellAt(j)], values |-> values]

\* serial losses: every pair of serial tensors of up to MaxSamples samples,
\* stored at the first cells of the grid
InitSerial ==
    /\ \E n \in 0 .. MaxSamples :
          \E v \in [1 .. n -> Vals], p \in [1 .. n -> Vals] :
              kwargs = Kwargs(SparseOf(v), DenseOf(p, 0), ZeroDense, NoSamples, NoSamples)
    /\ graph = "none"
    /\ loss = << >>

NextSerial == CallRMSE

SpecSerial == InitSerial /\ [][NextSerial]_vars

NextSeparation == CallSeparation

SpecSeparation == InitSerial /\ [][NextSeparation]_vars

\* dense loss: every sparse interaction tensor on the grid, every dense
\* prediction
InitDense ==
    /\ \E i \in SparseTensors(NUsers * NItems), p \in DenseTensors :
          kwargs = Kwargs(i, p, ZeroDense, NoSamples, NoSamples)
    /\ graph = "none"
    /\ loss = << >>

NextDense == CallRMSEDense

SpecDense == InitDense /\ [][NextDense]_vars

\* WMRB: interactions, predictions and sampled predictions
InitWMRB ==
    /\ \E i \in SparseTensors(MaxStored), p \in DenseTensors,
          s \in SampleTensors(MaxK) :
          kwargs = Kwargs(i, p, ZeroDense, s, NoSamples)
    /\ graph = "none"
    /\ loss = << >>

NextWMRB == CallWMRB

SpecWMRB == InitWMRB /\ [][NextWMRB]_vars

\* WMRB on alignments: interactions, alignments and sampled alignments; the
\* predictions are the negated alignments
InitWMRBAlignment ==
    /\ \E i \in SparseTensors(MaxStored), a \in DenseTensors,
          sa \in SampleTensors(MaxK) :
          kwargs = Kwargs(i, Scale(-1, a), a, NegateSamples(sa), sa)
    /\ graph = "none"
    /\ loss = << >>

NextWMRBAlignment == CallWMRBAlignment

SpecWMRBAlignment == InitWMRBAlignment /\ [][NextWMRBAlignment]_vars

\* the [n_users, k] tensor of a dense tensor's entries at the sampled items
SamplesOf(t, sampled_items) ==
    [shape |-> <<NUsers, Len(sampled_items)>>,
     rows |-> [u \in Users |->
                  [j \in 1 .. Len(sampled_items) |-> t[<<u, sampled_items[j]>>]]]]

\* every loss graph: up to MaxStored interactions stored at the first cells,
\* their predictions and the prediction of the other cells; the sampled
\* predictions and alignments are those of the first k items, the alignments
\* are the negated predictions
Init ==
    /\ \E n \in 0 .. MaxStored, fill \in {0, MaxVal}, k \in 0 .. MaxK :
          \E v \in [1 .. n -> Vals], p \in [1 .. n -> Vals] :
              LET prediction == DenseOf(p, fill)
                  sampled_items == [j \in 1 .. k |-> (j - 1) % NItems]
              IN  kwargs = Kwargs(SparseOf(v), prediction, Scale(-1, prediction),
                                  SamplesOf(prediction, sampled_items),
                                  SamplesOf(Scale(-1, prediction), sampled_items))
    /\ graph = "none"
    /\ loss = << >>

Next ==
    \/ CallRMSE
    \/ CallRMSEDense
    \/ CallSeparation
    \/ CallWMRB
    \/ CallWMRBAlignment

Spec == Init /\ [][Next]_vars

(***************************************************************************)
(* Properties of the serial and dense losses (SpecSerial, SpecDense).      *)
(***************************************************************************)
\* the (interaction - prediction) errors of the serial samples
SerialErrors == Subtract(kwargs.tf_interactions_serial, kwargs.tf_prediction_serial)

\* the sum of the squared serial errors
SerialSquaredError == SeqSum(Square(SerialErrors))

NSamples == Len(kwargs.tf_interactions_serial)

\* C1: RMSELossGraph.loss_graph of equal-length, non-empty serial vectors is
\* a non-negative number (never NaN), and it is 0 exactly when the
\* prediction equals the interaction at every index.
C1_RMSENonNegativeZeroIffEqual ==
    (graph = "RMSELossGraph" /\ NSamples > 0) =>
        /\ ~IsNaN(loss.sqrt_of)
        /\ loss.sqrt_of.num >= 0
        /\ (loss.sqrt_of.num = 0) <=>
              (\A j \in 1 .. NSamples :
                  kwargs.tf_prediction_serial[j] = kwargs.tf_interactions_serial[j])

\* C1 witness: RMSE was taken of vectors that differ although their errors
\* cancel, and the loss is positive.
C1_Witness ==
    /\ graph = "RMSELossGraph"
    /\ NSamples >= 2
    /\ SeqSum(SerialErrors) = 0
    /\ \E j \in 1 .. NSamples : SerialErrors[j] # 0
    /\ loss.sqrt_of.num > 0

\* The hypothesis of C2: the stored interactions are all non-zero and are the
\* serial samples, with the dense prediction of their cell as their serial
\* prediction; every other cell has interaction 0 (it is not stored) and
\* prediction 0.
DenseCoversSerial ==
    LET i == kwargs.tf_interactions
    IN  /\ \A j \in 1 .. Len(i.values) : i.values[j] # 0
        /\ kwargs.tf_interactions_serial = i.values
        /\ kwargs.tf_prediction_serial = GatherNd(kwargs.tf_prediction, i.indices)
        /\ \A c \in Cells :
              (\A j \in 1 .. Len(i.indices) : i.indices[j] # c) =>
                  kwargs.tf_prediction[c] = 0

\* C2 as claimed: under DenseCoversSerial the dense RMSE is the serial RMSE,
\* also when the grid has more cells than there are serial samples.
C2_DenseEqualsSerialAsClaimed ==
    (graph = "RMSEDenseLossGraph" /\ DenseCoversSerial) =>
        loss = RMSELossGraph_loss_graph(kwargs)

\* C2 amended: under DenseCoversSerial both losses are roots of the same sum
\* of squared errors, the dense one divided by the number of cells and the
\* serial one by the number of samples; they are equal when there is at least
\* one sample and either the samples fill the grid or every error is 0, and
\* the dense loss is the strictly smaller one when there are fewer samples
\* than cells and some error is not 0.
C2_DenseSameSquaredErrorOverCells ==
    (graph = "RMSEDenseLossGraph" /\ DenseCoversSerial) =>
        LET serial == RMSELossGraph_loss_graph(kwargs)
            cells == NUsers * NItems
        IN  /\ loss.sqrt_of = Rat(SerialSquaredError, cells)
            /\ serial.sqrt_of = Rat(SerialSquaredError, NSamples)
            /\ (NSamples > 0 /\ (NSamples = cells \/ SerialSquaredError = 0)) =>
                  loss = serial
            /\ (NSamples > 0 /\ NSamples < cells /\ SerialSquaredError # 0) =>
                  /\ loss # serial
                  /\ loss.sqrt_of.num * serial.sqrt_of.den
                        < serial.sqrt_of.num * loss.sqrt_of.den

\* C2 witness: the dense RMSE was taken of a grid with more cells than
\* samples and a non-zero error.
C2_Witness ==
    /\ graph = "RMSEDenseLossGraph"
    /\ DenseCoversSerial
    /\ NSamples > 0
    /\ NSamples < NUsers * NItems
    /\ SerialSquaredError # 0

\* the interactions that label every sample with the other group: `pos` for
\* the samples that were not positive, `neg` for those that were
SwappedLabels(interactions, pos, neg) ==
    [j \in 1 .. Len(interactions) |-> IF interactions[j] > 0 THEN neg ELSE pos]

Negated(a) == [j \in 1 .. Len(a) |-> -a[j]]

BothGroupsNonEmpty ==
    /\ \E j \in 1 .. NSamples : kwargs.tf_interactions_serial[j] > 0
    /\ \E j \in 1 .. NSamples : kwargs.tf_interactions_serial[j] <= 0

\* C6: when both groups are non-empty, negating every prediction and moving
\* every sample to the other group (whatever values label the groups) leaves
\* the Separation loss, that is loc and scale of its Normal, unchanged.
C6_SeparationSymmetric ==
    (graph = "SeparationLossGraph" /\ BothGroupsNonEmpty) =>
        \A neg \in {0, -MaxVal} :
            SeparationLossGraph_loss_graph(
                [kwargs EXCEPT !.tf_prediction_serial = Negated(@),
                               !.tf_interactions_serial =
                                   SwappedLabels(@, MaxVal, neg)]) = loss

\* C6 witness: a Separation loss of two non-empty groups whose means and
\* variances both differ.
C6_Witness ==
    /\ graph = "SeparationLossGraph"
    /\ BothGroupsNonEmpty
    /\ LET pos == Moments(BooleanMask(kwargs.tf_prediction_serial,
                                      Greater(kwargs.tf_interactions_serial, 0)))
           neg == Moments(BooleanMask(kwargs.tf_prediction_serial,
                                      LessEqual(kwargs.tf_interactions_serial, 0)))
       IN  /\ pos.mean # neg.mean
           /\ pos.variance # neg.variance
           /\ pos.variance.num > 0

\* the values that replace the positive and the other interactions: a larger
\* positive value than the tensors hold with zero, and the smallest positive
\* value with a more negative one than the tensors hold
Sides == {<<MaxVal + 1, 0>>, <<1, -(MaxVal + 1)>>}

\* the interactions with every positive value replaced by `pos` and every
\* other value by `neg`
SameSide(interactions, pos, neg) ==
    [j \in 1 .. Len(interactions) |-> IF interactions[j] > 0 THEN pos ELSE neg]

PositivePositions ==
    SelectSeq([j \in 1 .. Len(kwargs.tf_interactions.values) |-> j],
              LAMBDA j : kwargs.tf_interactions.values[j] > 0)

\* the <<user, item>> of the m-th positive interaction
PositivePair(m) == kwargs.tf_interactions.indices[PositivePositions[m]]

\* the number of columns of sample_predictions
K == kwargs.tf_sample_predictions.shape[2]

\* the sum of a user's row of sample_predictions
SampleSum(u) == SeqSum(kwargs.tf_sample_predictions.rows[u])

OnePositivePerUser ==
    \A u \in Users :
        Cardinality({m \in 1 .. Len(PositivePositions) : PositivePair(m)[1] = u}) = 1

\* C3: with exactly one strictly positive interaction per user and k columns
\* of sample_predictions, the value returned for a user whose positive item
\* has prediction p and whose own row of sample_predictions sums to s is
\* k - k*p + s + k.
C3_WMRBMarginFormula ==
    (graph = "WMRBLossGraph" /\ OnePositivePerUser) =>
        /\ Len(loss) = NUsers
        /\ \A m \in 1 .. Len(PositivePositions) :
              LET u == PositivePair(m)[1]
                  p == kwargs.tf_prediction[PositivePair(m)]
                  s == SampleSum(u)
              IN  loss[m] = K - K * p + s + K

\* C3 witness: WMRB was taken with one positive interaction per user, two
\* sampled items, rows of different sums, user 0's positive item being item 1
\* with prediction -1.
C3_Witness ==
    /\ graph = "WMRBLossGraph"
    /\ OnePositivePerUser
    /\ K = 2
    /\ SampleSum(0) # SampleSum(1)
    /\ \E m \in 1 .. Len(PositivePositions) :
          /\ PositivePair(m) = <<0, 1>>
          /\ kwargs.tf_prediction[PositivePair(m)] = -1

\* the margins after the prediction of the m-th positive pair is raised by d
RaisedMargins(m, d) ==
    WMRBLossGraph_loss_graph(
        [kwargs EXCEPT !.tf_prediction[PositivePair(m)] = @ + d])

\* C4 as claimed: raising the prediction of a positive pair, all else fixed,
\* strictly lowers the margin of that pair, whatever n_sampled_items is.
C4_MarginDecreasesAsClaimed ==
    (graph = "WMRBLossGraph") =>
        \A m \in 1 .. Len(loss), d \in 1 .. (2 * MaxVal) :
            RaisedMargins(m, d)[m] < loss[m]

\* C4 amended: raising the prediction of a positive pair, all else fixed,
\* strictly lowers the margin of that pair when n_sampled_items >= 1; with
\* n_sampled_items = 0 every margin is 0 and stays 0.
C4_MarginDecreasesWithSamples ==
    (graph = "WMRBLossGraph") =>
        \A m \in 1 .. Len(loss), d \in 1 .. (2 * MaxVal) :
            /\ (K >= 1) => RaisedMargins(m, d)[m] < loss[m]
            /\ (K = 0) => (RaisedMargins(m, d)[m] = 0 /\ loss[m] = 0)

\* C4 witness: WMRB was taken with sampled items and a positive pair.
C4_Witness ==
    /\ graph = "WMRBLossGraph"
    /\ K >= 1
    /\ Len(loss) >= 1

\* the stored interactions with strictly positive value only
PositiveOnly(i) ==
    [indices |-> BooleanMask(i.indices, Greater(i.values, 0)),
     values |-> BooleanMask(i.values, Greater(i.values, 0))]

\* C10: WMRB returns one entry per stored interaction of value > 0, in the
\* order of the sparse indices, each the margin of its own pair; the
\* interactions of value <= 0 add no entry and change none (the result is
\* that of the positive entries alone), and neither does the magnitude of a
\* value (the result is that of the values replaced by Sides).
C10_WMRBOneEntryPerPositive ==
    (graph = "WMRBLossGraph") =>
        LET i == kwargs.tf_interactions
        IN  /\ Len(loss) = Cardinality({j \in 1 .. Len(i.values) : i.values[j] > 0})
            /\ \A m \in 1 .. Len(loss) :
                  loss[m] = K - K * kwargs.tf_prediction[PositivePair(m)]
                              + SampleSum(PositivePair(m)[1]) + K
            /\ \A m, n \in 1 .. Len(PositivePositions) :
                  m < n => PositivePositions[m] < PositivePositions[n]
            /\ \A side \in Sides :
                  WMRBLossGraph_loss_graph(
                      [kwargs EXCEPT !.tf_interactions.values =
                                         SameSide(i.values, side[1], side[2])]) = loss
            /\ WMRBLossGraph_loss_graph(
                  [kwargs EXCEPT !.tf_interactions = PositiveOnly(i)]) = loss

\* C10 witness: WMRB was taken of a zero interaction stored before a positive
\* one, with sampled items and a non-zero prediction at the zero's cell.
C10_Witness ==
    /\ graph = "WMRBLossGraph"
    /\ K >= 1
    /\ Len(kwargs.tf_interactions.values) = 2
    /\ kwargs.tf_interactions.values[1] = 0
    /\ kwargs.tf_interactions.values[2] > 0
    /\ kwargs.tf_prediction[kwargs.tf_interactions.indices[1]] # 0
    /\ Len(loss) = 1

\* C5: WMRBAlignmentLossGraph.loss_graph on alignment A, interactions I and
\* sample_alignments S returns the vector WMRBLossGraph.loss_graph returns on
\* prediction A, interactions I and sample_predictions S.
C5_AlignmentIsWMRBRenamed ==
    (graph = "WMRBAlignmentLossGraph") =>
        loss = WMRBLossGraph_loss_graph(
                   [kwargs EXCEPT !.tf_prediction = kwargs.tf_alignment,
                                  !.tf_sample_predictions = kwargs.tf_sample_alignments])

\* C5 witness: the alignment loss was taken where WMRB on the predictions
\* themselves gives another vector.
C5_Witness ==
    /\ graph = "WMRBAlignmentLossGraph"
    /\ Len(loss) >= 1
    /\ kwargs.tf_sample_alignments.shape[2] >= 1
    /\ loss # WMRBLossGraph_loss_graph(kwargs)

(***************************************************************************)
(* Properties of every loss graph (Spec).                                  *)
(***************************************************************************)
ConstDense(v) == [c \in Cells |-> v]

ConstSamples(k, v) ==
    [shape |-> <<NUsers, k>>, rows |-> [u \in Users |-> [j \in 1 .. k |-> v]]]

\* two other sets of keyword arguments, different from each other in every
\* tensor
OtherKwargs ==
    {[tf_prediction_serial |-> <<MaxVal, -MaxVal>>,
      tf_interactions_serial |-> <<-MaxVal, MaxVal>>,
      tf_prediction |-> ConstDense(MaxVal),
      tf_interactions |-> [indices |-> <<<<0, 0>>>>, values |-> <<MaxVal>>],
      tf_rankings |-> ConstDense(MaxVal),
      tf_alignment |-> ConstDense(MaxVal),
      tf_sample_predictions |-> ConstSamples(1, MaxVal),
      tf_sample_alignments |-> ConstSamples(MaxK, -MaxVal)],
     [tf_prediction_serial |-> <<-MaxVal>>,
      tf_interactions_serial |-> <<0>>,
      tf_prediction |-> ConstDense(-MaxVal),
      tf_interactions |-> [indices |-> <<<<NUsers - 1, NItems - 1>>, <<0, 0>>>>,
                           values |-> <<MaxVal, -MaxVal>>],
      tf_rankings |-> ConstDense(-MaxVal),
      tf_alignment |-> ConstDense(-MaxVal),
      tf_sample_predictions |-> ConstSamples(MaxK, -MaxVal),
      tf_sample_alignments |-> ConstSamples(1, MaxVal)]}

\* the keyword arguments that agree with kw on the tensors `named` and take
\* all the others from OtherKwargs
Variations(kw, named) ==
    {[f \in DOMAIN kw |-> IF f \in named THEN kw[f] ELSE other[f]] :
        other \in OtherKwargs}

\* C7: a loss graph ignores the tensors its loss_graph does not name: the
\* call returns the same result on keyword arguments that agree on the named
\* tensors and differ in all the others.
C7_UnnamedTensorsIgnored ==
    (graph # "none") =>
        \A other \in Variations(kwargs, Signature(graph)) :
            LossGraph(graph, other) = loss

\* C7 witness: the alignment loss was taken, and WMRB on the same keyword
\* arguments, which reads the predictions, gives another vector.
C7_Witness ==
    /\ graph = "WMRBAlignmentLossGraph"
    /\ Len(loss) >= 1
    /\ kwargs.tf_sample_predictions.shape[2] >= 1
    /\ kwargs.tf_sample_predictions # kwargs.tf_sample_alignments
    /\ \E other \in Variations(kwargs, Signature(graph)) :
          WMRBLossGraph_loss_graph(other) # WMRBLossGraph_loss_graph(kwargs)

\* the dense [n_users, n_items] tensors and the sampled tensors
DenseParams == {"tf_prediction", "tf_interactions", "tf_rankings", "tf_alignment"}

SampleParams == {"tf_sample_predictions", "tf_sample_alignments"}

\* C8: a class whose loss_graph names a dense [n_users, n_items] tensor has
\* is_dense true, one whose loss_graph names a sampled tensor has
\* is_sample_based true (WMRBAlignmentLossGraph by inheritance), RMSE and
\* Separation have both false, and no class is sample based without being
\* dense.
C8_FlagsMatchSignature ==
    (graph # "none") =>
        LET is_dense == GetAttr(graph, "is_dense")
            is_sample_based == GetAttr(graph, "is_sample_based")
        IN  /\ (Signature(graph) \cap DenseParams # {}) => is_dense
            /\ (Signature(graph) \cap SampleParams # {}) => is_sample_based
            /\ graph \in {"RMSEDenseLossGraph", "WMRBLossGraph",
                          "WMRBAlignmentLossGraph"} => is_dense
            /\ graph \in {"WMRBLossGraph", "WMRBAlignmentLossGraph"} => is_sample_based
            /\ graph \in {"RMSELossGraph", "SeparationLossGraph"} =>
                  (~is_dense /\ ~is_sample_based)
            /\ is_sample_based => is_dense

\* C8 witness: the loss graph of a class that sets no flag itself and has
\* both by inheritance was called on sampled alignments.
C8_Witness ==
    /\ graph = "WMRBAlignmentLossGraph"
    /\ DOMAIN ClassDict(graph) = {}
    /\ GetAttr(graph, "is_dense")
    /\ GetAttr(graph, "is_sample_based")
    /\ kwargs.tf_sample_alignments.shape[2] >= 1

====
